---- MODULE Spec2Model ----
(***************************************************************************)
(* Model of the interview backend in src/backend/main.py: the state        *)
(* analyzer (analyze_interview_state), the phase/topic policy and the      *)
(* question generation (generate_question), the response normalizer       *)
(* (clean_json_response), the static question bank (get_fallback_question) *)
(* and the /step handler (interview_step).                                 *)
(*                                                                         *)
(* Texts are sequences of one-character strings, so that lower(), strip(), *)
(* split() and the regular-expression search are computed, not assumed.    *)
(* The fixed sentences of the program are single tokens (the sentence      *)
(* itself); LowerMap gives the lower-cased token of a token.               *)
(***************************************************************************)
EXTENDS Integers, Sequences, FiniteSets, TLC

VARIABLES
    GEMINI_AVAILABLE,  \* module-level flag set at import time
    history,           \* the caller's History, as submitted in the request body
    state,             \* the Dict analyze_interview_state returned in the last call
    decision,          \* action and target_phase chosen in generate_question
    response,          \* the body the last /step call returned
    foreign,           \* number of turns the caller wrote itself
    completion,        \* what the completion capability did in the last call
    ended,             \* a /step call of this session has reported termination
    prompt,            \* template of the prompt the last call built, "none" if none
    response_text,     \* input of clean_json_response
    result             \* outcome of clean_json_response

vars == <<GEMINI_AVAILABLE, history, state, decision, response, foreign,
          completion, ended, prompt, response_text, result>>

----------------------------------------------------------------------------
(* Python values *)

\* Python's None.
None == "<None>"

\* A key that the JSON body of the request does not carry.
Absent == "<absent>"

\* No value yet (before the first call).
Nothing == [nothing |-> TRUE]

\* Truthiness of an Optional[str]: None and "" are falsy.
Truthy(s) == s # None /\ s # ""

----------------------------------------------------------------------------
(* Bounds of the model *)

\* Longest History the session specification builds (the cap is 15).
MaxHistory == 16

\* Turns at the head of a History that the caller wrote itself.
MaxForeign == 2

\* Calls of a session that the completion capability answers with a text.
MaxCompletions == 2

\* Longest History of the analyzer specification.
MaxAnalyzed == 3

\* Longest History of the follow-up specification.
MaxTopicHistory == 5

\* Longest History of the opening specification.
MaxOpening == 2

\* Longest raw completion text of the normalizer specification.
MaxText == 4

----------------------------------------------------------------------------
(* Texts *)

\* str.lower() on the characters and fixed sentences the model uses.
LowerMap ==
    ("A" :> "a") @@ ("B" :> "b")
    @@ ("Thank you for your time today! Can you start by telling me about yourself and what interests you about this position?"
        :> "thank you for your time today! can you start by telling me about yourself and what interests you about this position?")
    @@ ("What initially sparked your interest in this field?"
        :> "what initially sparked your interest in this field?")
    @@ ("How would you describe your professional journey so far?"
        :> "how would you describe your professional journey so far?")
    @@ ("Can you walk me through one of your most significant projects?"
        :> "can you walk me through one of your most significant projects?")
    @@ ("Tell me about a challenging problem you solved recently."
        :> "tell me about a challenging problem you solved recently.")
    @@ ("What's an achievement you're particularly proud of?"
        :> "what's an achievement you're particularly proud of?")
    @@ ("How do you typically approach learning new technologies?"
        :> "how do you typically approach learning new technologies?")
    @@ ("Can you describe your experience with [relevant technology from CV]?"
        :> "can you describe your experience with [relevant technology from cv]?")
    @@ ("How do you stay updated with the latest developments in your field?"
        :> "how do you stay updated with the latest developments in your field?")
    @@ ("Can you explain a complex technical concept in simple terms?"
        :> "can you explain a complex technical concept in simple terms?")
    @@ ("What's your approach to debugging or troubleshooting?"
        :> "what's your approach to debugging or troubleshooting?")
    @@ ("Tell me about a time when you had to learn something completely new."
        :> "tell me about a time when you had to learn something completely new.")
    @@ ("Tell me about a time you worked in a team. What was your role?"
        :> "tell me about a time you worked in a team. what was your role?")
    @@ ("How do you handle tight deadlines and pressure?"
        :> "how do you handle tight deadlines and pressure?")
    @@ ("Describe a situation where you had to adapt to change."
        :> "describe a situation where you had to adapt to change.")
    @@ ("What motivates you in your work?"
        :> "what motivates you in your work?")
    @@ ("What questions do you have for us about the role or company?"
        :> "what questions do you have for us about the role or company?")
    @@ ("Where do you see yourself in the next few years?"
        :> "where do you see yourself in the next few years?")
    @@ ("Is there anything else you'd like us to know about you?"
        :> "is there anything else you'd like us to know about you?")
    @@ ("Thank you for your time today. That concludes our interview. Do you have any final questions for us?"
        :> "thank you for your time today. that concludes our interview. do you have any final questions for us?")
    @@ ("Let's shift focus. Can you tell me about a specific project or achievement you're particularly proud of?"
        :> "let's shift focus. can you tell me about a specific project or achievement you're particularly proud of?")
    @@ ("Can you tell me more about your experience?"
        :> "can you tell me more about your experience?")
    @@ ("Tell me about yourself."
        :> "tell me about yourself.")
    @@ ("Is there anything else you'd like to share about your experience?"
        :> "is there anything else you'd like to share about your experience?")
    @@ ("Thank you for your interest! Can you start by telling me a bit about yourself?"
        :> "thank you for your interest! can you start by telling me a bit about yourself?")

\* str.lower()
lower(s) == [i \in DOMAIN s |-> IF s[i] \in DOMAIN LowerMap THEN LowerMap[s[i]] ELSE s[i]]

\* len(s.split()): the number of maximal runs of non-blank characters.
split_len(s) ==
    Cardinality({i \in DOMAIN s : s[i] # " " /\ (i = 1 \/ s[i - 1] = " ")})

\* list.count(x)
count(list, x) == Cardinality({i \in DOMAIN list : list[i] = x})

\* list[-n:]
last_n(list, n) ==
    IF Len(list) <= n THEN list ELSE SubSeq(list, Len(list) - n + 1, Len(list))

----------------------------------------------------------------------------
(* Request model and phase table *)

\* HistoryItem: a turn of the request body after validation. An omitted
\* topic becomes None, an omitted phase becomes "general".
HistoryItem(item) ==
    [question |-> item.question,
     answer   |-> item.answer,
     topic    |-> IF item.topic = Absent THEN None ELSE item.topic,
     phase    |-> IF item.phase = Absent THEN "general" ELSE item.phase]

\* StepRequest.history: every submitted turn validated as a HistoryItem.
StepRequest(hist) == [i \in DOMAIN hist |-> HistoryItem(hist[i])]

\* list(INTERVIEW_PHASES.keys()), in insertion order.
phases == <<"introduction", "experience", "technical", "behavioral", "closing">>

\* INTERVIEW_PHASES[phase]["max_questions"]
INTERVIEW_PHASES ==
    [introduction |-> 2, experience |-> 4, technical |-> 3, behavioral |-> 3,
     closing |-> 2]

\* INTERVIEW_PHASES.get(phase, {}).get("max_questions", 3)
max_questions(phase) ==
    IF phase \in DOMAIN INTERVIEW_PHASES THEN INTERVIEW_PHASES[phase] ELSE 3

----------------------------------------------------------------------------
(* analyze_interview_state *)

\* history[-1].phase if history[-1].phase else "introduction"
current_phase(h) ==
    IF Truthy(h[Len(h)].phase) THEN h[Len(h)].phase ELSE "introduction"

\* len([h for h in history if h.phase == current_phase])
questions_in_phase(h) ==
    Cardinality({i \in DOMAIN h : h[i].phase = current_phase(h)})

\* history[-1].topic if history[-1].topic else None
current_topic(h) ==
    IF Truthy(h[Len(h)].topic) THEN h[Len(h)].topic ELSE None

\* Mutant of followup_scan: the loop goes on past a turn of another topic.
RECURSIVE followup_scan_all(_, _, _)
followup_scan_all(h, topic, i) ==
    IF i = 0 THEN 0
    ELSE IF h[i].topic = topic /\ Truthy(topic)
         THEN 1 + followup_scan_all(h, topic, i - 1)
         ELSE followup_scan_all(h, topic, i - 1)

\* The loop over reversed(history): one more while the turn at position i
\* carries current_topic and current_topic is truthy, break otherwise.
RECURSIVE followup_scan(_, _, _)
followup_scan(h, topic, i) ==
    IF i = 0 THEN 0
    ELSE IF h[i].topic = topic /\ Truthy(topic)
         THEN 1 + followup_scan(h, topic, i - 1)
         ELSE 0

followup_count(h) == followup_scan(h, current_topic(h), Len(h))

\* [h.question.lower() for h in history[-3:]]
recent_questions(h) ==
    LET tail == last_n(h, 3) IN [i \in DOMAIN tail |-> lower(tail[i].question)]

\* recent_questions.count(last_question) > 1
is_repetitive(h) ==
    count(recent_questions(h), lower(h[Len(h)].question)) > 1

\* len(history[-1].answer.split()) if history[-1].answer else 0
last_answer_length(h) ==
    IF h[Len(h)].answer # <<>> THEN split_len(h[Len(h)].answer) ELSE 0

\* Mutant of should_end_interview: the cap is reached one turn late.
should_end_interview_late(h) ==
    (current_phase(h) = "closing" /\ questions_in_phase(h) >= 2)
    \/ Len(h) > 15

should_end_interview(h) ==
    (current_phase(h) = "closing" /\ questions_in_phase(h) >= 2)
    \/ Len(h) >= 15

\* Mutant of should_change_phase: a phase takes one question more.
should_change_phase_late(h) ==
    questions_in_phase(h) > max_questions(current_phase(h))
    /\ ~should_end_interview(h)

should_change_phase(h) ==
    questions_in_phase(h) >= max_questions(current_phase(h))
    /\ ~should_end_interview(h)

\* Mutant of should_change_topic: a 5-word answer is not short.
should_change_topic_strict(h) ==
    \/ followup_count(h) >= 3
    \/ is_repetitive(h)
    \/ (followup_count(h) >= 2 /\ last_answer_length(h) < 5)

should_change_topic(h) ==
    \/ followup_count(h) >= 3
    \/ is_repetitive(h)
    \/ (followup_count(h) >= 2 /\ last_answer_length(h) <= 5)

analyze_interview_state(h) ==
    IF h = <<>> THEN
        [current_phase        |-> "introduction",
         questions_in_phase   |-> 0,
         current_topic        |-> None,
         followup_count       |-> 0,
         should_change_topic  |-> FALSE,
         should_change_phase  |-> FALSE,
         should_end_interview |-> FALSE,
         total_questions      |-> 0,
         recent_questions     |-> <<>>,
         last_answer_length   |-> 0,
         is_repetitive        |-> FALSE]
    ELSE
        [current_phase        |-> current_phase(h),
         questions_in_phase   |-> questions_in_phase(h),
         current_topic        |-> current_topic(h),
         followup_count       |-> followup_count(h),
         should_change_topic  |-> should_change_topic(h),
         should_change_phase  |-> should_change_phase(h),
         should_end_interview |-> should_end_interview(h),
         total_questions      |-> Len(h),
         recent_questions     |-> recent_questions(h),
         last_answer_length   |-> last_answer_length(h),
         is_repetitive        |-> is_repetitive(h)]

----------------------------------------------------------------------------
(* get_next_phase *)

\* phases.index(current_phase); 0 stands for the ValueError.
phase_index(phase) ==
    IF \E i \in DOMAIN phases : phases[i] = phase
    THEN CHOOSE i \in DOMAIN phases : phases[i] = phase
    ELSE 0

min(a, b) == IF a <= b THEN a ELSE b

\* Mutant of get_next_phase: the index is taken as if counted from 0.
get_next_phase_same(phase) ==
    IF phase_index(phase) = 0 THEN "introduction"
    ELSE phases[min(phase_index(phase), Len(phases))]

get_next_phase(phase) ==
    IF phase_index(phase) = 0 THEN "introduction"
    ELSE phases[min(phase_index(phase) + 1, Len(phases))]

----------------------------------------------------------------------------
(* Values of the parsed JSON object: a str, an int or None *)

PyStr(text) == [type |-> "str", val |-> text]
PyInt == [type |-> "int", val |-> <<"7">>]
PyNone == [type |-> "NoneType", val |-> <<>>]

\* The members a completion text can carry, as tokens of the raw text:
\* the token is the member as written, the record is what json.loads reads.
Member ==
    ("\"question\": \"b\""   :> [key |-> "question", value |-> PyStr(<<"b">>)])
    @@ ("\"question\": \"A\"" :> [key |-> "question", value |-> PyStr(<<"A">>)])
    @@ ("\"question\": 7"     :> [key |-> "question", value |-> PyInt])
    @@ ("\"advisor_tip\": \"t\"" :> [key |-> "advisor_tip", value |-> PyStr(<<"t">>)])
    @@ ("\"advisor_tip\": 7"     :> [key |-> "advisor_tip", value |-> PyInt])
    @@ ("\"advisor_tip\": null"  :> [key |-> "advisor_tip", value |-> PyNone])
    @@ ("\"topic\": \"X\""  :> [key |-> "topic", value |-> PyStr("X")])
    @@ ("\"topic\": null"   :> [key |-> "topic", value |-> PyNone])

\* dict.get(key, default)
get(dict, key, default) == IF key \in DOMAIN dict THEN dict[key] ELSE default

----------------------------------------------------------------------------
(* clean_json_response *)

\* str.strip(): drop the blanks at both ends.
RECURSIVE strip(_)
strip(s) ==
    IF s = <<>> THEN s
    ELSE IF Head(s) = " " THEN strip(Tail(s))
    ELSE IF s[Len(s)] = " " THEN strip(SubSeq(s, 1, Len(s) - 1))
    ELSE s

\* re.search(r'\{.*\}', text, re.DOTALL): the leftmost, greedy match, from
\* the first "{" to the last "}" after it; <<>> stands for no match.
json_match(text) ==
    LET opens  == {i \in DOMAIN text : text[i] = "{"}
        closes == {j \in DOMAIN text : text[j] = "}"}
    IN  IF \E i \in opens : \E j \in closes : i < j
        THEN LET first == CHOOSE i \in opens : \A k \in opens : i <= k
                 last  == CHOOSE j \in closes : \A k \in closes : k <= j
             IN  SubSeq(text, first, last)
        ELSE <<>>

\* The text without its blanks: JSON allows white space between tokens.
RECURSIVE unblank(_)
unblank(s) ==
    IF s = <<>> THEN s
    ELSE IF Head(s) = " " THEN unblank(Tail(s))
    ELSE <<Head(s)>> \o unblank(Tail(s))

\* Whether body is member ("," member)*
RECURSIVE is_members(_)
is_members(body) ==
    /\ body # <<>>
    /\ Head(body) \in DOMAIN Member
    /\ \/ Len(body) = 1
       \/ /\ Len(body) >= 3
          /\ body[2] = ","
          /\ is_members(SubSeq(body, 3, Len(body)))

\* The object the members build; a repeated key keeps its last value.
RECURSIVE members_dict(_)
members_dict(body) ==
    IF body = <<>> THEN <<>>
    ELSE IF Head(body) = "," THEN members_dict(Tail(body))
    ELSE LET m == Member[Head(body)]
         IN  members_dict(Tail(body)) @@ (m.key :> m.value)

\* json.loads(json_str) on a string that starts with "{" and ends with "}":
\* the object, or a JSONDecodeError.
json_loads(json_str) ==
    LET body == unblank(SubSeq(json_str, 2, Len(json_str) - 1))
    IN  IF body = <<>> THEN [error |-> FALSE, value |-> <<>>]
        ELSE IF is_members(body) THEN [error |-> FALSE, value |-> members_dict(body)]
        ELSE [error |-> TRUE, value |-> <<>>]

\* Mutant of clean_json_response: the static triple also when no JSON
\* object is found.
clean_json_response_static(text) ==
    IF json_match(text) # <<>> /\ ~json_loads(json_match(text)).error
    THEN json_loads(json_match(text)).value
    ELSE ("question" :> PyStr(<<"Can you tell me more about your experience?">>))
         @@ ("advisor_tip" :> PyStr(<<"Provide specific examples with measurable results.">>))
         @@ ("topic" :> PyStr("experience"))

clean_json_response(text) ==
    IF json_match(text) # <<>> THEN
        IF json_loads(json_match(text)).error THEN
            ("question" :> PyStr(<<"Can you tell me more about your experience?">>))
            @@ ("advisor_tip" :> PyStr(<<"Provide specific examples with measurable results.">>))
            @@ ("topic" :> PyStr("experience"))
        ELSE json_loads(json_match(text)).value
    ELSE
        ("question" :> PyStr(strip(text)))
        @@ ("advisor_tip" :> PyStr(<<"Focus on providing specific examples.">>))
        @@ ("topic" :> PyNone)

----------------------------------------------------------------------------
(* get_fallback_question *)

question_bank ==
    [introduction |-> <<
        <<"Thank you for your time today! Can you start by telling me about yourself and what interests you about this position?">>,
        <<"What initially sparked your interest in this field?">>,
        <<"How would you describe your professional journey so far?">> >>,
     experience |-> <<
        <<"Can you walk me through one of your most significant projects?">>,
        <<"Tell me about a challenging problem you solved recently.">>,
        <<"What's an achievement you're particularly proud of?">>,
        <<"How do you typically approach learning new technologies?">>,
        <<"Can you describe your experience with [relevant technology from CV]?">> >>,
     technical |-> <<
        <<"How do you stay updated with the latest developments in your field?">>,
        <<"Can you explain a complex technical concept in simple terms?">>,
        <<"What's your approach to debugging or troubleshooting?">>,
        <<"Tell me about a time when you had to learn something completely new.">> >>,
     behavioral |-> <<
        <<"Tell me about a time you worked in a team. What was your role?">>,
        <<"How do you handle tight deadlines and pressure?">>,
        <<"Describe a situation where you had to adapt to change.">>,
        <<"What motivates you in your work?">> >>,
     closing |-> <<
        <<"What questions do you have for us about the role or company?">>,
        <<"Where do you see yourself in the next few years?">>,
        <<"Is there anything else you'd like us to know about you?">> >>]

get_fallback_question(phase, h) ==
    LET questions == IF phase \in DOMAIN question_bank
                     THEN question_bank[phase]
                     ELSE question_bank["experience"]
        asked_questions == {lower(h[i].question) : i \in DOMAIN h}
        available == {i \in DOMAIN questions : lower(questions[i]) \notin asked_questions}
    IN  [question    |-> IF available # {}
                         THEN questions[CHOOSE i \in available : \A k \in available : i <= k]
                         ELSE questions[1],
         advisor_tip |-> <<"Provide specific examples and quantify your achievements when possible.">>,
         topic       |-> phase \o "_discussion"]

----------------------------------------------------------------------------
(* generate_question *)

\* Mutant of decide: the topic change is tested before the phase change.
decide_topic_first(st) ==
    IF st.should_end_interview THEN
        [action |-> "end", target_phase |-> "completed"]
    ELSE IF st.should_change_topic THEN
        [action |-> "new_topic", target_phase |-> st.current_phase]
    ELSE IF st.should_change_phase THEN
        [action |-> "new_phase", target_phase |-> get_next_phase(st.current_phase)]
    ELSE
        [action |-> "followup", target_phase |-> st.current_phase]

\* The choice of lines 261-281: the early return for the end of the
\* interview, then the if/elif/else that sets action and target_phase.
decide(st) ==
    IF st.should_end_interview THEN
        [action |-> "end", target_phase |-> "completed"]
    ELSE IF st.should_change_phase THEN
        [action |-> "new_phase", target_phase |-> get_next_phase(st.current_phase)]
    ELSE IF st.should_change_topic THEN
        [action |-> "new_topic", target_phase |-> st.current_phase]
    ELSE
        [action |-> "followup", target_phase |-> st.current_phase]

\* InterviewResponse(...)
InterviewResponse(question, advisor_tip, phase, topic, is_followup) ==
    [question |-> question, advisor_tip |-> advisor_tip, phase |-> phase,
     topic |-> topic, is_followup |-> is_followup]

\* a in b, for two str
is_substring(a, b) ==
    \E i \in 0..(Len(b) - Len(a)) : SubSeq(b, i + 1, i + Len(a)) = a

\* Mutant of fallback_response: the phase of the handler's fallback body.
fallback_response_general(h, d) ==
    LET r == get_fallback_question(d.target_phase, h)
    IN  InterviewResponse(r.question, r.advisor_tip, "general", r.topic,
                          d.action = "followup")

\* The return of lines 283-293, 437-443 and 469-476.
fallback_response(h, d) ==
    LET r == get_fallback_question(d.target_phase, h)
    IN  InterviewResponse(r.question, r.advisor_tip, d.target_phase, r.topic,
                          d.action = "followup")

\* Whether pydantic accepts the value for a str field (optional: None too).
\* coerce: the installed pydantic turns a number into its text.
validates(value, optional, coerce) ==
    \/ value.type = "str"
    \/ value.type = "int" /\ coerce
    \/ value.type = "NoneType" /\ optional

\* Lines 445-464: parse, post-check, build the response. raised is set when
\* an exception leaves the block (str method on a non-str, validation error).
completion_response(h, st, d, text, coerce) ==
    LET parsed == clean_json_response(text)
        q0 == get(parsed, "question", PyStr(<<>>))
    IN  IF q0.type # "str" THEN [raised |-> TRUE]
        ELSE
        LET new_question == lower(q0.val)
            similar == \E i \in DOMAIN st.recent_questions :
                          \/ is_substring(new_question, st.recent_questions[i])
                          \/ is_substring(st.recent_questions[i], new_question)
            res == IF similar THEN
                       ("question" :> PyStr(<<"Let's shift focus. Can you tell me about a specific project or achievement you're particularly proud of?">>))
                       @@ ("advisor_tip" :> PyStr(<<"Choose something that showcases your skills and impact.">>))
                       @@ ("topic" :> PyStr("achievements"))
                   ELSE parsed
            q == get(res, "question", PyStr(<<"Tell me about yourself.">>))
            t == get(res, "advisor_tip", PyStr(<<"Be specific and provide examples.">>))
            p == get(res, "topic", PyNone)
        IN  IF validates(q, FALSE, coerce) /\ validates(t, FALSE, coerce)
               /\ validates(p, TRUE, coerce)
            THEN [raised |-> FALSE,
                  value  |-> InterviewResponse(q.val, t.val, d.target_phase,
                                 IF p.type = "NoneType" THEN None ELSE p.val,
                                 d.action = "followup")]
            ELSE [raised |-> TRUE]

\* outcome: what model.generate_content(prompt).text does, a record
\* [raises |-> TRUE] or [raises |-> FALSE, text |-> the raw text].
generate_question(h, st, outcome, coerce) ==
    LET d == decide(st)
    IN  IF st.should_end_interview THEN
            InterviewResponse(
                <<"Thank you for your time today. That concludes our interview. Do you have any final questions for us?">>,
                <<"This is your chance to ask thoughtful questions about the role, company culture, or next steps.">>,
                "completed", "wrap_up", FALSE)
        ELSE IF ~GEMINI_AVAILABLE THEN fallback_response(h, d)
        ELSE IF outcome.raises THEN fallback_response(h, d)
        ELSE LET r == completion_response(h, st, d, strip(outcome.text), coerce)
             IN  IF r.raised THEN fallback_response(h, d) ELSE r.value

\* Mutant of build_prompt: the opening prompt when History is empty.
build_prompt_opening(st, d) ==
    IF st.should_end_interview \/ ~GEMINI_AVAILABLE THEN "none"
    ELSE IF st.total_questions = 0 THEN "opening"
    ELSE IF d.action = "new_phase" THEN
        IF d.target_phase = "closing" THEN "closing" ELSE "new_phase"
    ELSE IF d.action = "new_topic" THEN "new_topic"
    ELSE "followup"

\* The prompt template of lines 295-423, chosen by action and, for a new
\* phase, by the target phase. No prompt is built when the interview ends
\* (return at line 263) or in fallback mode (return at line 287).
build_prompt(st, d) ==
    IF st.should_end_interview \/ ~GEMINI_AVAILABLE THEN "none"
    ELSE IF d.action = "new_phase" THEN
        IF d.target_phase = "closing" THEN "closing" ELSE "new_phase"
    ELSE IF d.action = "new_topic" THEN "new_topic"
    ELSE "followup"

----------------------------------------------------------------------------
(* upload_cv *)

\* The body upload_cv returns for a PDF with text and a job description:
\* the opening prompt goes to the completion capability when it is
\* available, the bank's introduction question is used otherwise and when
\* the call raises. No post-check on recent questions is made here.
upload_result(outcome) ==
    LET res == IF GEMINI_AVAILABLE /\ ~outcome.raises
               THEN clean_json_response(strip(outcome.text))
               ELSE LET r == get_fallback_question("introduction", <<>>)
                    IN  ("question" :> PyStr(r.question))
                        @@ ("advisor_tip" :> PyStr(r.advisor_tip))
                        @@ ("topic" :> PyStr(r.topic))
        q == get(res, "question", PyStr(<<"Thank you for your interest! Can you start by telling me a bit about yourself?">>))
        t == get(res, "advisor_tip", PyStr(<<"Keep it concise and highlight your key strengths.">>))
        p == get(res, "topic", PyStr("introduction"))
    IN  [status_code |-> 200,
         body |-> [question |-> q.val, advisor_tip |-> t.val, phase |-> "introduction",
                   topic |-> IF p.type = "NoneType" THEN None ELSE p.val]]

----------------------------------------------------------------------------
(* interview_step *)

\* The body of the except branch, lines 607-619.
step_fallback(h) ==
    [question    |-> <<"Is there anything else you'd like to share about your experience?">>,
     advisor_tip |-> <<"Feel free to elaborate on any relevant experiences.">>,
     phase       |-> "general",
     topic       |-> None,
     is_followup |-> FALSE,
     is_completed |-> FALSE,
     interview_progress |->
        [current_phase |-> "general", questions_asked |-> Len(h),
         phase_progress |-> <<"unknown">>]]

\* final_response, lines 584-597.
final_response(h, st, r) ==
    [question    |-> r.question,
     advisor_tip |-> r.advisor_tip,
     phase       |-> r.phase,
     topic       |-> r.topic,
     is_followup |-> r.is_followup,
     is_completed |-> (r.phase = "completed"),
     interview_progress |->
        [current_phase |-> r.phase, questions_asked |-> Len(h),
         phase_progress |-> <<st.questions_in_phase, "/", max_questions(r.phase)>>,
         total_questions |-> st.total_questions]]

\* The handler returns a dict: FastAPI answers 200 with it as the body.
step_result(h, outcome, coerce) ==
    LET st == analyze_interview_state(h)
    IN  [status_code |-> 200,
         body |-> final_response(h, st, generate_question(h, st, outcome, coerce))]

----------------------------------------------------------------------------
(* Inputs *)

\* An answer of n words.
RECURSIVE words(_)
words(n) == IF n = 0 THEN <<>>
            ELSE IF n = 1 THEN <<"w">>
            ELSE <<"w", " ">> \o words(n - 1)

Questions == {<<"a">>, <<"A">>, <<"b">>}

\* Turns of the analyzer specification: question, answer and topic vary.
Turns ==
    [question : Questions, answer : {words(5), words(6)},
     topic : {Absent, "X", "Y"}, phase : {Absent}]
    \cup [question : {<<"a">>, <<"b">>}, answer : {<<>>},
          topic : {"X"}, phase : {Absent}]

\* Turns of the follow-up specification: the topic varies.
TopicTurns ==
    [question : {<<"a">>}, answer : {words(6)},
     topic : {Absent, None, "", "X", "Y"}, phase : {Absent}]

\* Turns a caller writes at the head of a session: the phase varies.
ForeignTurns ==
    [question : {<<"a">>}, answer : {words(6)}, topic : {Absent},
     phase : {Absent, None, "", "general", "introduction", "behavioral", "closing"}]

\* What the completion capability does in one call.
Completions ==
    {[raises |-> TRUE, text |-> <<>>]}
    \cup [raises : {FALSE}, text : {
            <<"b">>,
            <<"{", "b", "}">>,
            <<"{", "}">>,
            <<" ", "{", "\"question\": \"A\"", ",", "\"advisor_tip\": \"t\"", ",", "\"topic\": \"X\"", "}">>,
            <<"{", "\"question\": 7", "}">>,
            <<"{", "\"question\": \"b\"", ",", "\"advisor_tip\": null", "}">>,
            <<"{", "\"question\": \"b\"", ",", "\"advisor_tip\": 7", ",", "\"topic\": null", "}">>}]

\* Characters of the raw texts of the normalizer specification.
TextChars == {"{", "}", " ", "b", ",", "\"question\": \"b\"", "\"topic\": \"X\""}

----------------------------------------------------------------------------
(* Actions *)

\* POST /step with the caller's History.
interview_step(outcome, coerce) ==
    /\ response = Nothing
    /\ outcome.raises \/ (GEMINI_AVAILABLE /\ Len(history) - foreign < MaxCompletions)
    /\ state' = analyze_interview_state(StepRequest(history))
    /\ decision' = decide(analyze_interview_state(StepRequest(history)))
    /\ response' = step_result(StepRequest(history), outcome, coerce)
    /\ completion' = outcome
    /\ ended' = (ended \/ (state'.should_end_interview /\ response'.body.is_completed))
    /\ prompt' = build_prompt(state', decision')
    /\ UNCHANGED <<GEMINI_AVAILABLE, history, foreign, response_text, result>>

\* POST /upload with a readable PDF and a job description, at the start of
\* a session.
upload_cv(outcome) ==
    /\ history = <<>>
    /\ response = Nothing
    /\ outcome.raises \/ GEMINI_AVAILABLE
    /\ response' = upload_result(outcome)
    /\ completion' = outcome
    /\ prompt' = IF GEMINI_AVAILABLE THEN "opening" ELSE "none"
    /\ UNCHANGED <<GEMINI_AVAILABLE, history, state, decision, foreign, ended,
                   response_text, result>>

\* The caller appends the returned question, with its phase and topic and
\* the candidate's answer, to History.
ClientAppend ==
    /\ response # Nothing
    /\ Len(history) < MaxHistory
    /\ history' = Append(history,
                    [question |-> response.body.question, answer |-> words(6),
                     topic |-> response.body.topic, phase |-> response.body.phase])
    /\ state' = Nothing
    /\ decision' = Nothing
    /\ response' = Nothing
    /\ completion' = Nothing
    /\ prompt' = "none"
    /\ UNCHANGED <<GEMINI_AVAILABLE, foreign, ended, response_text, result>>

\* The caller puts a turn of its own making into History.
Submit(turn, bound) ==
    /\ Len(history) = foreign
    /\ foreign < bound
    /\ history' = Append(history, turn)
    /\ foreign' = foreign + 1
    /\ state' = Nothing
    /\ decision' = Nothing
    /\ response' = Nothing
    /\ completion' = Nothing
    /\ prompt' = "none"
    /\ UNCHANGED <<GEMINI_AVAILABLE, ended, response_text, result>>

SubmitForeign == \E turn \in ForeignTurns : Submit(turn, MaxForeign)

SubmitTurn == \E turn \in Turns : Submit(turn, MaxAnalyzed)

SubmitTopic == \E turn \in TopicTurns : Submit(turn, MaxTopicHistory)

Step == \E outcome \in Completions, coerce \in BOOLEAN :
            interview_step(outcome, coerce)

\* What the completion capability does in an /upload call: it raises or
\* returns one of the texts whose question is a text.
UploadCompletions ==
    {c \in Completions :
        c.raises \/ get(clean_json_response(strip(c.text)), "question", PyStr(<<>>)).type = "str"}

Upload == \E outcome \in UploadCompletions : upload_cv(outcome)

\* The caller appends the first questions of a session.
AppendFirst == Len(history) < MaxOpening /\ ClientAppend

\* The completion capability writes one more character of its text.
Write ==
    /\ Len(response_text) < MaxText
    /\ \E c \in TextChars : response_text' = Append(response_text, c)
    /\ result' = Nothing
    /\ UNCHANGED <<GEMINI_AVAILABLE, history, state, decision, response, foreign,
                   completion, ended, prompt>>

\* clean_json_response(response_text)
Clean ==
    /\ result = Nothing
    /\ result' = [value |-> clean_json_response(response_text)]
    /\ UNCHANGED <<GEMINI_AVAILABLE, history, state, decision, response, foreign,
                   completion, ended, prompt, response_text>>

----------------------------------------------------------------------------
(* Specifications *)

Init ==
    /\ GEMINI_AVAILABLE \in BOOLEAN
    /\ history = <<>>
    /\ state = Nothing
    /\ decision = Nothing
    /\ response = Nothing
    /\ foreign = 0
    /\ completion = Nothing
    /\ ended = FALSE
    /\ prompt = "none"
    /\ response_text = <<>>
    /\ result = Nothing

InitFallback == Init /\ GEMINI_AVAILABLE = FALSE

\* A session: the caller may start from turns of its own, then appends what
\* the server returns.
Next == Step \/ ClientAppend \/ SubmitForeign

Spec == Init /\ [][Next]_vars

\* The analyzer on every short History.
NextAnalyze == Step \/ SubmitTurn

SpecAnalyze == InitFallback /\ [][NextAnalyze]_vars

\* The follow-up count on every History of topics.
NextFollowup == Step \/ SubmitTopic

SpecFollowup == InitFallback /\ [][NextFollowup]_vars

\* The start of a session: /upload or /step on the empty History, and the
\* first turns.
NextOpening == Upload \/ Step \/ AppendFirst

SpecOpening == Init /\ [][NextOpening]_vars

\* The normalizer on every short raw text.
NextClean == Write \/ Clean

SpecClean == InitFallback /\ [][NextClean]_vars

----------------------------------------------------------------------------
(* Properties *)

\* A /step call has returned and the caller has not yet changed History.
Stepped == response # Nothing

\* The last turn of the caller's History, as submitted.
LastTurn == history[Len(history)]

\* The fixed closing response of generate_question.
IsClosingResponse ==
    /\ response.body.phase = "completed"
    /\ response.body.is_completed
    /\ response.body.question = <<"Thank you for your time today. That concludes our interview. Do you have any final questions for us?">>

\* The six phases in their order.
PhaseOrder == phases \o <<"completed">>

\* Position of a phase in PhaseOrder, 0 when it is none of them.
OrderIndex(p) ==
    IF \E i \in DOMAIN PhaseOrder : PhaseOrder[i] = p
    THEN CHOOSE i \in DOMAIN PhaseOrder : PhaseOrder[i] = p
    ELSE 0

\* C1: once a /step call of the session has reported termination, every
\* later /step call on the History, extended by appended turns, reports
\* termination again with the fixed closing response.
C1_TerminationIdempotent ==
    (Stepped /\ ended) => (state.should_end_interview /\ IsClosingResponse)

\* C2: when the last turn carries one of the six phases, the phase /step
\* returns is not lower in the order than the last turn's phase.
C2_PhaseMonotonic ==
    (Stepped /\ history # <<>> /\ OrderIndex(LastTurn.phase) > 0)
        => OrderIndex(response.body.phase) >= OrderIndex(LastTurn.phase)

\* C3: the action follows the strict priority end > phase change > topic
\* change > followup, and is_followup is returned only when the three flags
\* are all false.
C3_PolicyPriority ==
    Stepped =>
        /\ state.should_end_interview =>
              (decision.action = "end" /\ IsClosingResponse /\ ~response.body.is_followup)
        /\ (~state.should_end_interview /\ state.should_change_phase) =>
              decision.action = "new_phase"
        /\ (~state.should_end_interview /\ ~state.should_change_phase
               /\ state.should_change_topic) =>
              decision.action = "new_topic"
        /\ (decision.action = "followup" \/ response.body.is_followup) <=>
              (~state.should_end_interview /\ ~state.should_change_phase
               /\ ~state.should_change_topic)
        /\ response.body.is_followup <=> (decision.action = "followup")

\* C3 witness: both change flags are set and the phase change wins.
C3_Witness ==
    /\ Stepped
    /\ state.should_change_phase
    /\ state.should_change_topic
    /\ decision.action = "new_phase"
    /\ ~response.body.is_followup

\* Number of turns of the caller's History submitted with phase closing.
ClosingTurns == Cardinality({i \in DOMAIN history : history[i].phase = "closing"})

\* C4: should_end_interview is true exactly when the last turn is a closing
\* turn and at least 2 turns are closing turns, or History has 15 turns or
\* more; should_change_phase is never true with it.
C4_EndExactly ==
    (Stepped /\ history # <<>>) =>
        /\ state.should_end_interview <=>
              \/ (LastTurn.phase = "closing" /\ ClosingTurns >= INTERVIEW_PHASES["closing"])
              \/ Len(history) >= 15
        /\ ~(state.should_end_interview /\ state.should_change_phase)

\* C4 witness: 15 turns, the last one not a closing turn, and the call ends
\* the interview.
C4_Witness ==
    /\ Stepped
    /\ Len(history) = 15
    /\ LastTurn.phase # "closing"
    /\ state.should_end_interview
    /\ IsClosingResponse

\* The last turn's lower-cased question occurs more than once among the
\* lower-cased questions of the last 3 turns.
QuestionRepeated ==
    Cardinality({i \in DOMAIN history :
                    /\ i > Len(history) - 3
                    /\ lower(history[i].question) = lower(LastTurn.question)}) > 1

\* The last answer has at most 5 words (the answers of Turns have 0, 5 or 6).
ShortAnswer == LastTurn.answer \in {<<>>, words(1), words(5)}

SuffixShares(k) ==
    \A i \in DOMAIN history : i > Len(history) - k => history[i].topic = LastTurn.topic

\* C6: followup_count is the length of the longest suffix of History whose
\* turns all carry the last turn's topic, and 0 when that topic is absent
\* or empty.
C6_FollowupCount ==
    (Stepped /\ history # <<>>) =>
        IF LastTurn.topic \in {Absent, None, ""}
        THEN state.followup_count = 0
        ELSE /\ state.followup_count \in 1..Len(history)
             /\ SuffixShares(state.followup_count)
             /\ ~SuffixShares(state.followup_count + 1)
                    \/ state.followup_count = Len(history)

\* C6 witness: topics X, Y, X, X, X give followup_count 3.
C6_Witness ==
    /\ Stepped
    /\ Len(history) = 5
    /\ history[1].topic = "X"
    /\ history[2].topic = "Y"
    /\ history[3].topic = "X"
    /\ history[4].topic = "X"
    /\ history[5].topic = "X"
    /\ state.followup_count = 3

\* The questions of the static question bank.
BankQuestions ==
    {question_bank[p][i] : p \in DOMAIN question_bank, i \in 1..3}
    \cup {question_bank[p][i] : p \in {"experience", "technical", "behavioral"}, i \in {4}}
    \cup {question_bank["experience"][5]}

\* The completion call of the last /step call failed: the capability is
\* unavailable, it raised, or its JSON object carries a question that is
\* not a text.
CompletionFailed ==
    \/ ~GEMINI_AVAILABLE
    \/ completion.raises
    \/ completion.text = <<"{", "\"question\": 7", "}">>

\* C7: a /step call returns a success response with a question and a tip;
\* when the completion call fails and the interview goes on, the response
\* is the bank's question, with the target phase and is_followup of the
\* policy.
C7_NeverAnError ==
    Stepped =>
        /\ response.status_code = 200
        /\ Len(response.body.question) >= 0
        /\ Len(response.body.advisor_tip) = 1
        /\ (CompletionFailed /\ ~state.should_end_interview) =>
              /\ response.body.question \in BankQuestions
              /\ response.body.question
                    = get_fallback_question(decision.target_phase, StepRequest(history)).question
              /\ response.body.phase = decision.target_phase
              /\ response.body.is_followup = (decision.action = "followup")

\* C7 witness: the capability raises in a call that changes the phase, and
\* the bank's question is returned in the next phase.
C7_Witness ==
    /\ Stepped
    /\ GEMINI_AVAILABLE
    /\ completion.raises
    /\ decision.action = "new_phase"
    /\ response.body.phase = "experience"
    /\ response.body.question \in BankQuestions

\* The raw text holds no "{" followed, anywhere later, by a "}".
NoJsonObject(text) ==
    ~\E i, j \in DOMAIN text : i < j /\ text[i] = "{" /\ text[j] = "}"

\* The brace-delimited substring of the raw text is not valid JSON.
ParseFails(text) == ~NoJsonObject(text) /\ json_loads(json_match(text)).error

\* Two values of a parsed object are the same Python value.
SameValue(v, w) == v.type = w.type /\ (v.type = "NoneType" \/ v.val = w.val)

\* The object holds exactly this question, tip and topic.
IsTriple(d, question, advisor_tip, topic) ==
    /\ DOMAIN d = {"question", "advisor_tip", "topic"}
    /\ SameValue(d["question"], question)
    /\ SameValue(d["advisor_tip"], advisor_tip)
    /\ SameValue(d["topic"], topic)

\* The static fallback triple of the normalizer.
IsStaticTriple(d) ==
    IsTriple(d, PyStr(<<"Can you tell me more about your experience?">>),
             PyStr(<<"Provide specific examples with measurable results.">>),
             PyStr("experience"))

\* q is the text without the blanks at its two ends.
IsStripOf(q, text) ==
    \E i \in 1..(Len(text) + 1), j \in 0..Len(text) :
        /\ q = SubSeq(text, i, j)
        /\ \A k \in DOMAIN text : (k < i \/ k > j) => text[k] = " "
        /\ q # <<>> => (q[1] # " " /\ q[Len(q)] # " ")

C9_CurrentPhaseDefault ==
    (Stepped /\ history # <<>>) =>
        state.current_phase =
            IF LastTurn.phase \in {Absent, None, ""} THEN "introduction"
            ELSE LastTurn.phase

\* The successor of the i-th phase, clamped at the last one.
Successor(i) == phases[IF i < Len(phases) THEN i + 1 ELSE Len(phases)]

\* Number of turns of the caller's History submitted with phase introduction.
IntroductionTurns ==
    Cardinality({i \in DOMAIN history : history[i].phase = "introduction"})

\* C10 as stated: whenever the action is new_phase, current_phase is one of
\* the five phases and the target is its successor.
C10_TargetIsSuccessor ==
    (Stepped /\ decision.action = "new_phase") =>
        \E i \in DOMAIN phases :
            /\ state.current_phase = phases[i]
            /\ decision.target_phase = Successor(i)

\* C10 amended: whenever the action is new_phase the response carries the
\* target phase, which is the successor of current_phase when current_phase
\* is one of the five phases and introduction otherwise; the successor of
\* closing is closing; a History of 2 introduction turns yields new_phase
\* with target experience.
C10_TargetOfNewPhase ==
    /\ get_next_phase(phases[Len(phases)]) = phases[Len(phases)]
    /\ (Stepped /\ decision.action = "new_phase") =>
          /\ response.body.phase = decision.target_phase
          /\ \A i \in DOMAIN phases :
                state.current_phase = phases[i] => decision.target_phase = Successor(i)
          /\ (\A i \in DOMAIN phases : state.current_phase # phases[i])
                => decision.target_phase = "introduction"
    /\ (Stepped /\ history # <<>> /\ LastTurn.phase = "introduction"
          /\ IntroductionTurns = 2 /\ Len(history) < 15) =>
          (decision.action = "new_phase" /\ decision.target_phase = "experience")

\* C10 witness: 2 introduction turns move the interview to experience.
C10_Witness ==
    /\ Stepped
    /\ Len(history) = 2
    /\ state.current_phase = "introduction"
    /\ decision.action = "new_phase"
    /\ decision.target_phase = "experience"
    /\ response.body.phase = "experience"

\* A /step call on the empty History has returned.
SteppedOnEmpty == state # Nothing /\ response # Nothing /\ history = <<>>

\* The analyzer's initial state and the policy's choice on it.
InitialStateAndFollowup ==
    /\ state.current_phase = "introduction"
    /\ state.questions_in_phase = 0
    /\ state.followup_count = 0
    /\ state.total_questions = 0
    /\ state.last_answer_length = 0
    /\ state.current_topic = None
    /\ state.recent_questions = <<>>
    /\ ~state.should_change_topic
    /\ ~state.should_change_phase
    /\ ~state.should_end_interview
    /\ decision = [action |-> "followup", target_phase |-> "introduction"]

\* C11 as stated: on the empty History the analyzer returns the initial
\* state, the policy yields followup with target introduction, and the
\* step handler runs the opening-question pipeline (the opening prompt).
C11_EmptyHistoryOpening ==
    SteppedOnEmpty =>
        /\ InitialStateAndFollowup
        /\ GEMINI_AVAILABLE => prompt = "opening"

\* C11 amended: on the empty History the analyzer returns the initial
\* state, the policy yields followup with target introduction, and the step
\* handler runs the follow-up pipeline: the follow-up prompt when the
\* completion capability is available, no prompt otherwise, and a response
\* in phase introduction marked as a follow-up. The opening prompt is built
\* by /upload only.
C11_EmptyHistoryFollowup ==
    /\ SteppedOnEmpty =>
          /\ InitialStateAndFollowup
          /\ prompt = (IF GEMINI_AVAILABLE THEN "followup" ELSE "none")
          /\ response.body.phase = "introduction"
          /\ response.body.is_followup
    /\ prompt = "opening" => (state = Nothing /\ history = <<>>)

\* C11 witness: /step on the empty History, answered by the completion
\* capability from the follow-up prompt.
C11_Witness ==
    /\ SteppedOnEmpty
    /\ GEMINI_AVAILABLE
    /\ ~completion.raises
    /\ prompt = "followup"
    /\ response.body.is_followup
    /\ response.body.phase = "introduction"

\* The question of the object the normalizer made of the last completion
\* text, "" when the object has none.
NormalizedQuestion ==
    get(clean_json_response(strip(completion.text)), "question", PyStr(<<>>))

\* The last /step call went on to a completion text whose normalized
\* question is a text.
OnCompletionPath ==
    /\ Stepped
    /\ GEMINI_AVAILABLE
    /\ ~state.should_end_interview
    /\ ~completion.raises
    /\ NormalizedQuestion.type = "str"

\* The normalized question, lower-cased, is a substring of, or contains,
\* one of the lower-cased questions of the last 3 turns.
SimilarToRecent ==
    \E i \in DOMAIN history :
        /\ i > Len(history) - 3
        /\ \/ is_substring(lower(NormalizedQuestion.val), lower(history[i].question))
           \/ is_substring(lower(history[i].question), lower(NormalizedQuestion.val))

\* The fixed anti-repetition triple.
IsAntiRepetitionResponse ==
    /\ response.body.question = <<"Let's shift focus. Can you tell me about a specific project or achievement you're particularly proud of?">>
    /\ response.body.advisor_tip = <<"Choose something that showcases your skills and impact.">>
    /\ response.body.topic = "achievements"

\* The returned question is the question of one of the last 3 turns.
RepeatsRecentQuestion ==
    \E i \in DOMAIN history :
        i > Len(history) - 3 /\ response.body.question = history[i].question

\* C12: on the completion path, a normalized question similar to a recent
\* question is replaced by the anti-repetition triple, and the question
\* returned, the completion's or the replacement, is never one of the last
\* 3 questions asked.
C12_NeverRepeatsRecent ==
    OnCompletionPath =>
        /\ SimilarToRecent => IsAntiRepetitionResponse
        /\ (SimilarToRecent \/ response.body.question = NormalizedQuestion.val)
              => ~RepeatsRecentQuestion

\* The phases of the turns of a session, in order: 2 introduction turns, 4
\* experience, 3 technical, 3 behavioral and 2 closing turns.
Schedule ==
    <<"introduction", "introduction",
      "experience", "experience", "experience", "experience",
      "technical", "technical", "technical",
      "behavioral", "behavioral", "behavioral",
      "closing", "closing">>

\* C13: in a session that starts from the empty History and appends every
\* returned question with its phase and topic, whatever the completion
\* capability does, the turns follow the schedule of the phases, /step
\* goes on while History holds fewer than 14 turns, reports termination
\* through the closing-phase rule at exactly 14 turns, and reports it again
\* at 15 turns and more.
C13_SessionTerminates ==
    (Stepped /\ foreign = 0) =>
        /\ \A i \in DOMAIN history : i <= Len(Schedule) => history[i].phase = Schedule[i]
        /\ Len(history) < 14 =>
              (~state.should_end_interview /\ ~response.body.is_completed)
        /\ Len(history) = 14 =>
              /\ state.current_phase = "closing"
              /\ state.questions_in_phase = INTERVIEW_PHASES["closing"]
              /\ state.total_questions < 15
        /\ Len(history) >= 14 =>
              /\ state.should_end_interview
              /\ response.body.phase = "completed"
              /\ response.body.is_completed

\* C13 witness: a session whose first two questions came from the
\* completion capability ends at 14 turns through the closing-phase rule.
C13_Witness ==
    /\ Stepped
    /\ foreign = 0
    /\ GEMINI_AVAILABLE
    /\ Len(history) = 14
    /\ history[1].question = <<"b">>
    /\ history[2].topic = "achievements"
    /\ state.current_phase = "closing"
    /\ state.should_end_interview
    /\ response.body.is_completed

\* Four consecutive turns of History, the last four, share one topic.
FourTurnsShareTopic ==
    /\ Len(history) >= 4
    /\ \A i \in (Len(history) - 3)..Len(history) :
          history[i].topic = history[Len(history)].topic

\* C14: without the completion capability, when the policy's action is
\* new_topic the topic of the returned question differs from
\* state.current_topic, and in a session that appends every returned
\* question with its topic and phase no four consecutive turns share one
\* topic.
C14_TopicChangeChangesTopic ==
    ~GEMINI_AVAILABLE =>
        /\ (Stepped /\ decision.action = "new_topic") =>
              response.body.topic # state.current_topic
        /\ foreign = 0 => ~FourTurnsShareTopic

\* The number of turns of the request's History whose phase is the phase
\* the response reports.
TurnsOfReportedPhase ==
    Cardinality({i \in DOMAIN history :
        StepRequest(history)[i].phase = response.body.interview_progress.current_phase})

\* C15: in every /step response phase_progress is x/max, where max is the
\* max_questions of the reported current_phase and x is the number of
\* History turns of that reported phase, so x never exceeds max.
C15_ProgressConsistent ==
    (Stepped /\ state # Nothing) =>
        LET progress == response.body.interview_progress.phase_progress
        IN  /\ Len(progress) = 3
            /\ progress[2] = "/"
            /\ progress[3] = max_questions(response.body.interview_progress.current_phase)
            /\ progress[1] = TurnsOfReportedPhase
            /\ progress[1] <= progress[3]

====
